---- MODULE Spec2Model ----
(***************************************************************************)
(* Model of the recipe dispatcher recipes.py: run() parses the command     *)
(* line and dispatches on args.mode through one if/elif chain; each recipe *)
(* is a sequence of calls into training_data (td), models and plots.       *)
(* The state records the parsed arguments, the position inside the recipe, *)
(* the bindings of the recipe's local variables and the trace of external  *)
(* calls (events) made so far.                                             *)
(* The disk holds the directories the test recipes list.  The tutorial    *)
(* api_tutorials/keras_example.py is a separate program with its own      *)
(* state (keras) and specification (KerasSpec); SpecFaults is Spec with   *)
(* calls that may raise.                                                   *)
(***************************************************************************)
EXTENDS Integers, Sequences, FiniteSets, TLC

VARIABLES
    args,     \* the namespace returned by arguments.parse_args()
    pc,       \* "run" | "body" | "loop" | "done" | "raised"
    recipe,   \* name of the recipe function being executed, "" if none
    ip,       \* index of the next statement in the current statement list
    i,        \* index of the current loop iteration (0 outside loops)
    items,    \* the sequence the recipe's for loop iterates over
    locals,   \* bindings of the recipe's local variables
    trace,    \* events: calls to td / models / plots and prints, in order
    called,   \* the calls run() itself made, in order
    error,    \* the exception that left the recipe, "" if none
    disk,     \* the directories and files the recipes list
    keras     \* the state of api_tutorials/keras_example.py

recipeVars ==
    <<args, pc, recipe, ip, i, items, locals, trace, called, error, disk>>

vars == <<recipeVars, keras>>

\* ---------------------------------------------------------------- bounds
MaxSamples == 2
MaxIterations == 2
MaxArchitectures == 2
MaxShared == 1
MaxSites == 5
MaxEntries == 3
MaxPixel == 1
MaxLabel == 1

\* ------------------------------------------------------ program constants
InspectSamples == 10
ScoresPrinted == 5
NumLabels == 10

\* ------------------------------------------------------------- dispatch
\* The if/elif chain of run(), in source order: the literal compared with
\* args.mode and the calls written in that branch.
ChainDuplicateLiteral ==
    <<
      [mode |-> "train_ref_read", calls |-> <<"train_ref_read_model">>],
      [mode |-> "train_ref_read", calls |-> <<"train_ref_read_model_b">>],
      [mode |-> "write_filters_2d", calls |-> <<"models.build_read_tensor_2d_and_annotations_model(args)", "models.write_filters_2d(args, model)">>]
    >>

Chain ==
    <<
      [mode |-> "train_reference", calls |-> <<"make_reference_net">>],
      [mode |-> "train_reference_annotation", calls |-> <<"make_reference_annotation_net">>],
      [mode |-> "train_reference_plus_skip", calls |-> <<"train_reference_plus_skip">>],
      [mode |-> "train_reference_1layer", calls |-> <<"make_reference_annotation_net_1layer">>],
      [mode |-> "train_annotation_mlp", calls |-> <<"make_annotation_multilayer_perceptron">>],
      [mode |-> "train_ref_read", calls |-> <<"train_ref_read_model">>],
      [mode |-> "train_ref_read_resnet", calls |-> <<"train_ref_read_resnet_model">>],
      [mode |-> "train_ref_read_dilated", calls |-> <<"train_ref_read_dilated_model">>],
      [mode |-> "train_train_ref_read_b", calls |-> <<"train_ref_read_model_b">>],
      [mode |-> "train_ref_read_bayes", calls |-> <<"train_ref_read_inception_model">>],
      [mode |-> "train_pileup_filter", calls |-> <<"train_pileup_filter">>],
      [mode |-> "train_calling_model", calls |-> <<"train_calling_model">>],
      [mode |-> "train_calling_full2d", calls |-> <<"train_calling_model_full">>],
      [mode |-> "train_calling_model_1d", calls |-> <<"train_calling_model_1d">>],
      [mode |-> "train_ref_read_anno", calls |-> <<"train_ref_read_annotation_model">>],
      [mode |-> "train_ref_read_anno_exome", calls |-> <<"train_ref_read_annotation_exome_model">>],
      [mode |-> "train_bqsr", calls |-> <<"bqsr_train_tensor">>],
      [mode |-> "train_bqsr_anno", calls |-> <<"bqsr_train_annotation_tensor">>],
      [mode |-> "train_bqsr_lstm", calls |-> <<"bqsr_lstm_train_tensor">>],
      [mode |-> "train_depristo_inception", calls |-> <<"depristo_inception">>],
      [mode |-> "test_tensor", calls |-> <<"test_tensor_and_annotations">>],
      [mode |-> "test_tensor_exome", calls |-> <<"test_ref_read_annotation_exome_model">>],
      [mode |-> "test_tensor_vcf", calls |-> <<"test_tensor_vs_vcf">>],
      [mode |-> "test_tensor_multi_vcf", calls |-> <<"test_tensor_vs_multiple_vcfs">>],
      [mode |-> "test_tensor_filters", calls |-> <<"test_tensor_and_annotations_vs_filters">>],
      [mode |-> "test_tensor_gnomad", calls |-> <<"test_tensor_vs_gnomad">>],
      [mode |-> "test_refconv_gnomad", calls |-> <<"test_refconv_vs_gnomad">>],
      [mode |-> "test_refconv", calls |-> <<"test_reference_annotation_net">>],
      [mode |-> "test_ref", calls |-> <<"test_reference_net">>],
      [mode |-> "test_anno_mlp", calls |-> <<"test_annotation_multilayer_perceptron">>],
      [mode |-> "test_caller", calls |-> <<"test_caller_pileup">>],
      [mode |-> "test_caller_2d", calls |-> <<"test_caller_2d">>],
      [mode |-> "test_architectures", calls |-> <<"test_architectures">>],
      [mode |-> "plot_vcf_roc", calls |-> <<"plot_vcf_roc">>],
      [mode |-> "plot_vcf_roc_gnomad", calls |-> <<"plot_vcf_roc_gnomad_scores">>],
      [mode |-> "plot_vcf_roc_gnomad_like", calls |-> <<"plot_vcf_roc_gnomad_like_scores">>],
      [mode |-> "plot_multi_vcf_roc", calls |-> <<"plot_multi_vcf_roc">>],
      [mode |-> "roc_animation", calls |-> <<"roc_curve_through_learning">>],
      [mode |-> "pr_segmentation_animation", calls |-> <<"roc_curve_through_learning_segmentation">>],
      [mode |-> "write_tensors", calls |-> <<"td.tensors_from_tensor_map(args, include_annotations=True)">>],
      [mode |-> "write_paired_read_tensors", calls |-> <<"td.paired_read_tensors_from_map(args, include_annotations=True)">>],
      [mode |-> "write_tensors_2bit", calls |-> <<"td.tensors_from_tensor_map_2channel(args, include_annotations=True)">>],
      [mode |-> "write_tensors_no_annotations", calls |-> <<"td.tensors_from_tensor_map(args, include_annotations=False)">>],
      [mode |-> "write_tensors_gnomad_annotations", calls |-> <<"td.tensors_from_tensor_map_gnomad_annos(args)">>],
      [mode |-> "write_tensors_gnomad_annotations_per_allele_1d", calls |-> <<"td.tensors_from_tensor_map_gnomad_annos_per_allele(args, include_reads=False, include_reference=True)">>],
      [mode |-> "write_tensors_gnomad_1d", calls |-> <<"td.tensors_from_tensor_map_gnomad_annos(args, include_reads=False, include_reference=True)">>],
      [mode |-> "write_depristo", calls |-> <<"td.nist_samples_to_png(args)">>],
      [mode |-> "write_calling_tensors", calls |-> <<"td.calling_tensors_from_tensor_map(args)">>],
      [mode |-> "write_pileup_filter_tensors", calls |-> <<"td.tensors_from_tensor_map(args, pileup=True)">>],
      [mode |-> "write_calling_tensors_1d", calls |-> <<"td.calling_tensors_from_tensor_map(args, pileup=True)">>],
      [mode |-> "write_dna_tensors", calls |-> <<"td.write_dna_and_annotations(args)">>],
      [mode |-> "write_bed_tensors", calls |-> <<"td.write_dna_multisource_annotations(args)">>],
      [mode |-> "write_bed_tensors_dna", calls |-> <<"td.write_dna_multisource_annotations(args, include_annotations=False)">>],
      [mode |-> "write_bed_tensors_annotations", calls |-> <<"td.write_dna_multisource_annotations(args, include_dna=False)">>],
      [mode |-> "write_bqsr_tensors", calls |-> <<"td.bqsr_tensors_from_tensor_map(args, include_annotations=True)">>],
      [mode |-> "write_filters_2d", calls |-> <<"models.build_read_tensor_2d_and_annotations_model(args)", "models.write_filters_2d(args, model)">>],
      [mode |-> "write_filters_1d", calls |-> <<"models.build_reference_model(args)", "models.write_filters_1d(args, model)">>],
      [mode |-> "write_tranches", calls |-> <<"td.write_tranches(args)">>],
      [mode |-> "inspect_tensors", calls |-> <<"td.inspect_read_tensors(args)">>],
      [mode |-> "inspect_dataset", calls |-> <<"td.inspect_dataset(args)">>],
      [mode |-> "inspect_architectures", calls |-> <<"inspect_architectures">>],
      [mode |-> "inspect_gnomad", calls |-> <<"td.inspect_gnomad_low_ac(args)">>],
      [mode |-> "combine_vcfs", calls |-> <<"td.combine_vcfs(args)">>]
    >>

ModeLiterals == {Chain[k].mode : k \in 1..Len(Chain)}

\* A mode string that matches no literal of the chain.
UnknownMode == "no_such_recipe"

\* First branch of the chain, from position k on, whose literal equals m
\* (if / elif semantics); 0 when the else branch is taken.
RECURSIVE FirstMatchFrom(_, _)
FirstMatchFrom(k, m) ==
    IF k > Len(Chain) THEN 0
    ELSE IF Chain[k].mode = m THEN k
    ELSE FirstMatchFrom(k + 1, m)

\* A chain whose else branch falls back on the first recipe.
FirstMatchOrFirstBranch(m) ==
    IF FirstMatchFrom(1, m) = 0 THEN 1 ELSE FirstMatchFrom(1, m)

FirstMatch(m) == FirstMatchFrom(1, m)

\* The branch the same chain would take with its branches written in the
\* reverse order.
RECURSIVE LastMatchFrom(_, _)
LastMatchFrom(k, m) ==
    IF k < 1 THEN 0
    ELSE IF Chain[k].mode = m THEN k
    ELSE LastMatchFrom(k - 1, m)

LastMatch(m) == LastMatchFrom(Len(Chain), m)

\* ------------------------------------------------------------ arguments
TrainModes ==
    {"train_reference", "train_reference_annotation", "train_reference_plus_skip",
     "train_reference_1layer", "train_annotation_mlp", "train_ref_read",
     "train_ref_read_resnet", "train_ref_read_dilated", "train_train_ref_read_b",
     "train_ref_read_bayes", "train_pileup_filter", "train_calling_model",
     "train_calling_full2d", "train_calling_model_1d", "train_ref_read_anno",
     "train_ref_read_anno_exome", "train_bqsr", "train_bqsr_anno",
     "train_bqsr_lstm", "train_depristo_inception"}

LabelSets == SUBSET {"SNP", "INDEL"}

\* The fields of args whose value decides what a recipe does, per mode.  A
\* field the dispatched recipe never reads is kept at one value: no step
\* of that recipe depends on it.
ReadsSamples(m)    == m \in {"roc_animation", "pr_segmentation_animation"}
ReadsIterations(m) == m \in {"roc_animation", "pr_segmentation_animation"}
ReadsGnomad(m)     == m \in {"test_tensor_gnomad", "test_architectures"}
ReadsAnnotations(m) ==
    m \in {"test_tensor_vcf", "test_tensor_multi_vcf", "test_tensor_filters"}
ReadsWindowSize(m) == m = "test_refconv_gnomad"
ReadsDataDir(m) == m \in {"test_refconv", "test_ref", "test_anno_mlp"}

\* ----------------------------------------------------------- file system
\* A path is a string, here the sequence of its characters.  Alphabet lists
\* the characters used, in code-point order.
Sep == "/"
Alphabet == <<"/", "a", "b", "c", "d", "e", "f", "g", "s", "t">>
Ord(c) == CHOOSE k \in 1..Len(Alphabet) : Alphabet[k] = c

\* The literal 'test/' the recipes append to args.data_dir.
TestLiteral == <<"t", "e", "s", "t", "/">>

\* Names on the disk: the data directory "d", its sub-directory "test",
\* the entries of d/test, and a directory "dtest" beside "d" holding one
\* sub-directory "g".
DataDirName == <<"d">>
TestName == <<"t", "e", "s", "t">>
SiblingName == DataDirName \o TestName
SiblingEntry == <<"g">>
EntryChars == <<"a", "b", "c", "f">>
EntryNames == {<<EntryChars[k]>> : k \in 1..MaxEntries}
AllNames == {DataDirName, TestName, SiblingName, SiblingEntry} \cup EntryNames

\* The values of args.data_dir that name the directory "d": 'd/' and 'd'.
DataDirs == {DataDirName \o <<Sep>>, DataDirName}

\* A disk: what each possible entry of d/test is (a directory, a plain
\* file, or absent) and whether the directory "dtest" exists.
Disks ==
    [entries : [EntryNames -> {"dir", "file", "none"}], sibling : BOOLEAN]

DefaultDisk == [entries |-> [n \in EntryNames |-> "dir"], sibling |-> FALSE]

DisksFor(m) == IF ReadsDataDir(m) THEN Disks ELSE {DefaultDisk}

\* Path resolution: the components of path p, empty components (repeated
\* or trailing separators) dropped.
RECURSIVE SplitFrom(_, _, _)
SplitFrom(p, cur, done) ==
    IF p = <<>> THEN (IF cur = <<>> THEN done ELSE Append(done, cur))
    ELSE IF Head(p) = Sep
         THEN SplitFrom(Tail(p), <<>>,
                        IF cur = <<>> THEN done ELSE Append(done, cur))
    ELSE SplitFrom(Tail(p), Append(cur, Head(p)), done)

Split(p) == SplitFrom(p, <<>>, <<>>)

\* What the components comps name on disk d, relative to the working
\* directory.
Kind(d, comps) ==
    IF comps = <<>> THEN "dir"
    ELSE IF comps = <<DataDirName>> THEN "dir"
    ELSE IF comps = <<DataDirName, TestName>> THEN "dir"
    ELSE IF Len(comps) = 3 /\ SubSeq(comps, 1, 2) = <<DataDirName, TestName>>
            /\ comps[3] \in EntryNames
         THEN d.entries[comps[3]]
    ELSE IF comps = <<SiblingName>> /\ d.sibling THEN "dir"
    ELSE IF comps = <<SiblingName, SiblingEntry>> /\ d.sibling THEN "dir"
    ELSE "none"

isdir(d, p) == Kind(d, Split(p)) = "dir"

\* os.listdir(p): the names of the entries of directory p (in no order).
listdir(d, p) == {n \in AllNames : Kind(d, Append(Split(p), n)) # "none"}

\* String comparison, character by character.
RECURSIVE StrLess(_, _)
StrLess(s, t) ==
    IF t = <<>> THEN FALSE
    ELSE IF s = <<>> THEN TRUE
    ELSE IF Head(s) = Head(t) THEN StrLess(Tail(s), Tail(t))
    ELSE Ord(Head(s)) < Ord(Head(t))

RECURSIVE sorted(_)
sorted(S) ==
    IF S = {} THEN <<>>
    ELSE LET least == CHOOSE x \in S : \A y \in S \ {x} : StrLess(x, y)
         IN <<least>> \o sorted(S \ {least})

\* test_paths = [test_dir + vp for vp in sorted(os.listdir(test_dir))
\*               if os.path.isdir(test_dir + vp)]
TestPaths(d, test_dir) ==
    LET names == sorted(listdir(d, test_dir))
        kept == SelectSeq(names, LAMBDA vp : isdir(d, test_dir \o vp))
    IN [k \in 1..Len(kept) |-> test_dir \o kept[k]]

\* The namespaces arguments.parse_args() can return for mode m.
ArgsFor(m) ==
    [mode : {m},
     samples : IF ReadsSamples(m) THEN 0..MaxSamples ELSE {1},
     iterations : IF ReadsIterations(m) THEN 0..MaxIterations ELSE {1},
     architectures : IF m = "test_architectures" THEN 0..MaxArchitectures ELSE {1},
     single_sample_vqsr : IF ReadsGnomad(m) THEN BOOLEAN ELSE {FALSE},
     deep_variant_vcf : IF ReadsGnomad(m) THEN BOOLEAN ELSE {FALSE},
     emit_interesting_sites : IF ReadsGnomad(m) THEN BOOLEAN ELSE {FALSE},
     labels : IF ReadsGnomad(m) THEN LabelSets ELSE {{"SNP", "INDEL"}},
     annotations_blank : IF ReadsAnnotations(m) THEN BOOLEAN ELSE {FALSE},
     window_size_zero : IF ReadsWindowSize(m) THEN BOOLEAN ELSE {FALSE},
     data_dir : IF ReadsDataDir(m) THEN DataDirs ELSE {DataDirName \o <<Sep>>}]

parse_args == UNION {ArgsFor(m) : m \in ModeLiterals \cup {UnknownMode}}

\* ------------------------------------------------------- values and events
Unbound == -1

\* A model object: the loop iteration that built it, whether it has been
\* fitted, and the number of fit_generator rounds the recipe ran on it.
\* NoModel stands for the name `model` not being bound.
NoModel == [built |-> Unbound, trained |-> FALSE, rounds |-> 0]
NewModel(it) == [built |-> it, trained |-> FALSE, rounds |-> 0]

\* What models.train_model_from_generators returns for model m: the fitted
\* model.
TrainModelFromGenerators(m) == [m EXCEPT !.trained = TRUE]

\* model.fit_generator fits the model object in place.
FitGenerator(m) == [m EXCEPT !.trained = TRUE, !.rounds = @ + 1]

\* An event: the operation, the model and the training generator it was
\* given, the loop iteration it happened in, a count and (for score plots)
\* the names of the score series.
Ev(op, m, g, it, n, series) ==
    [op |-> op, m |-> m, g |-> g, i |-> it, n |-> n, series |-> series]

Event(op) == Ev(op, NoModel, Unbound, i, 0, {})

NoLocals ==
    [model |-> NoModel, predictions |-> NoModel, weight_path |-> FALSE,
     paths |-> FALSE, generate_train |-> Unbound, generate_valid |-> Unbound,
     generate_test |-> Unbound, test |-> Unbound, single_sample |-> FALSE,
     deep_variant |-> FALSE, scores |-> FALSE, shared_snp |-> Unbound,
     shared_indel |-> Unbound, test_paths |-> <<>>]

\* keras_example.py is a program of its own: while recipes.py runs it is
\* not running.
KerasIdle ==
    [pc |-> "idle", fn |-> "", ip |-> 1,
     files |-> [cwd |-> FALSE, data |-> FALSE],
     pickle |-> <<>>, train |-> <<>>, test |-> <<>>, valid |-> <<>>,
     train_y |-> <<>>, valid_y |-> <<>>, test_y |-> <<>>, compiled |-> FALSE,
     out |-> <<>>]

Init ==
    /\ keras = KerasIdle
    /\ args \in parse_args
    /\ disk \in DisksFor(args.mode)
    /\ pc = "run"
    /\ recipe = ""
    /\ ip = 1
    /\ i = 0
    /\ items = <<>>
    /\ locals = NoLocals
    /\ trace = <<>>
    /\ called = <<>>
    /\ error = ""

\* ------------------------------------------------------------- recipes
\* Each recipe is the list of its statements that call td / models / plots
\* or bind a local the later statements read; pure arithmetic on shapes and
\* prints of shapes are left out.  Statement names:
\*   set_args        assignments to fields of args
\*   paths           td.get_train_valid_test_paths[_all]
\*   list_test       test_paths = the sub-directories that os.listdir finds
\*   gen_train, gen_valid, gen_test   a td generator over the paths
\*   generators      td.train_valid_test_generators_from_args
\*   weight_path     weight_path = arguments.weight_path_from_args(args)
\*   build           model = models.build_...(args)
\*   serialize       models.serialize_model_semantics(args, weight_path)
\*   inspect         models.inspect_model(args, model, generators)
\*   train           model = models.train_model_from_generators(...)
\*   train_unbound   models.train_model_from_generators(...), result dropped
\*   fit_callbacks   model.fit_generator(..., callbacks=models.get_callbacks(..))
\*   fit             model.fit_generator(...) without callbacks
\*   test            test = td.load_..._from_class_dirs(...)
\*   test_batches    the loop of args.iterations generate_test.next() calls
\*   test_next       one generate_test.next() / big batch from the generator
\*   predict         predictions = model.predict(test data)
\*   plot_model      plots.plot_roc_per_class(model, test data, ...)
\*   plot_pred       plots.plot_*_per_class_predictions(predictions, ...)
\*   print_auc       plots.print_auc_per_class(model, test data, ...)
\*   print_error     print('Error ...')
\*   scores          a td / models call returning score dictionaries
\*   plot_scores     plots.plot_rocs_from_scores / plot_precision_recall_..
\*   title           plots.weight_path_to_title(weight_path)
\*   gnomad_scores   td.gnomad_scores_from_positions(args, positions, ...)
\*   single_sample   if args.single_sample_vqsr: td.scores_from_positions
\*   deep_variant    if args.deep_variant_vcf: td.scores_from_positions
\*   shared_keys     the intersections of the scorers' key sets
\*   truth_deep_variant   the truth lists read from snp/indel_deep_variant
\*   snp_block, indel_block   the if 'SNP' / 'INDEL' in args.labels blocks
\*   set_samples     args.samples = 10
PlotThenTrain ==
    <<"paths", "gen_train", "gen_valid", "weight_path", "build", "test",
      "plot_model", "train">>

TrainThenPlot ==
    <<"paths", "gen_train", "gen_valid", "weight_path", "build", "train",
      "test", "plot_model">>

Body(r, a) ==
    CASE r = "make_reference_net" -> TrainThenPlot
      [] r = "make_reference_annotation_net" -> TrainThenPlot
      [] r = "train_reference_plus_skip" -> TrainThenPlot
      [] r = "make_reference_annotation_net_1layer" -> TrainThenPlot
      [] r = "make_annotation_multilayer_perceptron" ->
            <<"set_args", "paths", "gen_train", "gen_valid", "weight_path",
              "build", "inspect", "train", "test", "plot_model">>
      [] r = "train_ref_read_model" ->
            <<"paths", "gen_train", "gen_valid", "weight_path", "build",
              "serialize", "train", "test", "plot_model">>
      [] r = "train_ref_read_resnet_model" -> TrainThenPlot
      [] r = "train_ref_read_dilated_model" -> TrainThenPlot
      [] r = "train_ref_read_model_b" ->
            <<"paths", "gen_train", "gen_valid", "weight_path", "build",
              "serialize", "train", "test", "plot_model">>
      [] r = "train_ref_read_inception_model" -> TrainThenPlot
      [] r = "train_pileup_filter" ->
            <<"paths", "gen_train", "gen_valid", "gen_test", "test_batches",
              "weight_path", "build", "train", "plot_model">>
      [] r = "train_calling_model" ->
            <<"set_args", "build", "paths", "gen_train", "gen_valid",
              "gen_test", "weight_path", "train", "test_batches", "predict",
              "plot_pred">>
      [] r = "train_calling_model_full" ->
            <<"set_args", "build", "paths", "gen_train", "gen_valid",
              "gen_test", "weight_path", "train", "test_batches", "predict",
              "plot_pred">>
      [] r = "train_calling_model_1d" ->
            <<"set_args", "paths", "gen_train", "gen_valid", "weight_path",
              "build", "train", "set_args", "gen_test", "test_next",
              "predict", "plot_pred", "plot_pred">>
      [] r = "train_ref_read_annotation_model" -> TrainThenPlot
      [] r = "train_ref_read_annotation_exome_model" -> TrainThenPlot
      [] r = "bqsr_train_tensor" -> <<"set_args">> \o TrainThenPlot
      [] r = "bqsr_train_annotation_tensor" -> <<"set_args">> \o TrainThenPlot
      [] r = "bqsr_lstm_train_tensor" ->
            <<"set_args", "paths", "gen_train", "gen_valid", "build", "train",
              "test", "plot_model">>
      [] r = "depristo_inception" -> TrainThenPlot
      [] r = "test_tensor_and_annotations" ->
            <<"paths", "weight_path", "build", "test", "plot_model">>
      [] r = "test_ref_read_annotation_exome_model" ->
            <<"paths", "weight_path", "build", "test", "plot_model">>
      [] r = "test_tensor_vs_vcf" ->
            <<"paths", "test", "build">>
            \o (IF a.annotations_blank THEN <<"plot_model">> ELSE <<>>)
            \o <<"predict", "scores", "scores", "plot_scores", "plot_scores",
                 "plot_scores", "plot_scores">>
      [] r = "test_tensor_vs_multiple_vcfs" ->
            <<"paths", "test", "build">>
            \o (IF a.annotations_blank THEN <<"plot_model">> ELSE <<>>)
            \o <<"predict", "scores", "scores", "plot_scores", "plot_scores",
                 "plot_scores", "plot_scores">>
      [] r = "test_tensor_and_annotations_vs_filters" ->
            <<"paths", "test", "build">>
            \o (IF a.annotations_blank THEN <<"plot_model">> ELSE <<>>)
            \o <<"predict", "scores", "scores", "scores", "scores",
                 "plot_scores", "plot_scores", "plot_scores", "plot_scores">>
      [] r = "test_tensor_vs_gnomad" ->
            <<"paths", "test", "build", "predict", "gnomad_scores",
              "gnomad_scores", "single_sample", "deep_variant", "shared_keys", "snp_block",
              "indel_block">>
      [] r = "test_refconv_vs_gnomad" ->
            <<"paths">>
            \o (IF a.window_size_zero THEN <<"test", "build">>
                ELSE <<"build", "test">>)
            \o <<"predict", "scores", "gnomad_scores", "gnomad_scores",
                 "single_sample", "deep_variant", "plot_scores", "plot_scores", "plot_scores",
                 "plot_scores">>
      [] r = "test_reference_annotation_net" ->
            <<"weight_path", "build", "list_test", "title", "test", "predict",
              "scores", "scores", "plot_scores", "plot_scores", "plot_scores",
              "plot_scores">>
      [] r = "test_reference_net" ->
            <<"weight_path", "build", "list_test", "title", "test", "predict",
              "scores", "scores", "plot_scores", "plot_scores", "plot_scores",
              "plot_scores">>
      [] r = "test_annotation_multilayer_perceptron" ->
            <<"weight_path", "build", "list_test", "title", "test", "predict",
              "scores", "scores", "plot_scores", "plot_scores", "plot_scores",
              "plot_scores">>
      [] r = "test_caller_pileup" ->
            <<"set_args", "paths", "gen_test", "build", "test_batches",
              "predict", "plot_pred", "plot_pred", "plot_pred">>
      [] r = "test_caller_2d" ->
            <<"set_args", "paths", "gen_test", "build", "test_batches",
              "predict", "plot_pred", "plot_pred", "plot_pred">>
      [] r = "test_architectures" -> <<>>
      [] r = "plot_vcf_roc" ->
            <<"scores", "plot_scores", "plot_scores", "plot_scores",
              "plot_scores">>
      [] r = "plot_vcf_roc_gnomad_scores" ->
            <<"scores", "plot_scores", "plot_scores", "plot_scores",
              "plot_scores">>
      [] r = "plot_vcf_roc_gnomad_like_scores" ->
            <<"scores", "plot_scores", "plot_scores", "plot_scores",
              "plot_scores">>
      [] r = "plot_multi_vcf_roc" ->
            <<"scores", "plot_scores", "plot_scores">>
      [] r = "roc_curve_through_learning" ->
            <<"paths", "gen_train", "gen_valid", "weight_path", "build",
              "test">>
      [] r = "roc_curve_through_learning_segmentation" ->
            <<"set_args", "paths", "gen_train", "gen_valid", "gen_test",
              "build", "test_batches">>
      [] r = "inspect_architectures" -> <<"set_samples">>
      [] OTHER -> <<>>

Recipes ==
    {"make_reference_net", "make_reference_annotation_net",
     "train_reference_plus_skip", "make_reference_annotation_net_1layer",
     "make_annotation_multilayer_perceptron", "train_ref_read_model",
     "train_ref_read_resnet_model", "train_ref_read_dilated_model",
     "train_ref_read_model_b", "train_ref_read_inception_model",
     "train_pileup_filter", "train_calling_model", "train_calling_model_full",
     "train_calling_model_1d", "train_ref_read_annotation_model",
     "train_ref_read_annotation_exome_model", "bqsr_train_tensor",
     "bqsr_train_annotation_tensor", "bqsr_lstm_train_tensor",
     "depristo_inception", "test_tensor_and_annotations",
     "test_ref_read_annotation_exome_model", "test_tensor_vs_vcf",
     "test_tensor_vs_multiple_vcfs", "test_tensor_and_annotations_vs_filters",
     "test_tensor_vs_gnomad", "test_refconv_vs_gnomad",
     "test_reference_annotation_net", "test_reference_net",
     "test_annotation_multilayer_perceptron", "test_caller_pileup",
     "test_caller_2d", "test_architectures", "plot_vcf_roc",
     "plot_vcf_roc_gnomad_scores", "plot_vcf_roc_gnomad_like_scores",
     "plot_multi_vcf_roc", "roc_curve_through_learning",
     "roc_curve_through_learning_segmentation", "inspect_architectures"}

\* The recipes whose statements end in a for loop, and the loop's body.
LoopRecipes ==
    {"roc_curve_through_learning", "roc_curve_through_learning_segmentation",
     "inspect_architectures", "test_architectures"}

\* The keys inspect_architectures branches on, and one that matches no
\* branch.
ArchKeys ==
    {"1d_calling", "bqsr", "2d_annotations", "2d", "1d_annotations", "1d",
     "mlp", "deep_variant", "2d_2bit", "unknown_arch"}

\* The orders in which defines.architectures.keys() can list its keys: the
\* keys of a dictionary are distinct.
KeyLists ==
    {ks \in UNION {[1..n -> ArchKeys] : n \in 0..MaxArchitectures} :
        \A j, k \in DOMAIN ks : j # k => ks[j] # ks[k]}

Range(n) == [k \in 1..n |-> "range"]

\* The sequences the loop of recipe r can iterate over.
LoopItems(r, a) ==
    CASE r = "roc_curve_through_learning" -> {Range(a.iterations)}
      [] r = "roc_curve_through_learning_segmentation" -> {Range(a.samples)}
      [] r = "test_architectures" -> {Range(a.architectures)}
      [] r = "inspect_architectures" -> KeyLists
      [] OTHER -> {<<>>}

SegmentationFitThenPlot == <<"fit", "predict", "plot_pred">>

SegmentationLoop == <<"predict", "plot_pred", "fit">>

ArchBranch(a) ==
    CASE a = "1d_calling" ->
            <<"set_args", "paths", "gen_train", "gen_valid", "gen_test",
              "test_next", "build">>
      [] a = "bqsr" ->
            <<"set_args", "gen_train", "gen_valid", "test", "build",
              "print_auc">>
      [] a \in {"2d_annotations", "2d", "1d_annotations", "1d"} ->
            <<"gen_train", "gen_valid", "test", "build", "print_auc">>
      [] a \in {"mlp", "deep_variant"} ->
            <<"set_args", "gen_train", "gen_valid", "test", "build",
              "print_auc">>
      [] a = "2d_2bit" -> <<"print_error">>
      [] OTHER -> <<"print_error">>

LoopBody(r, item) ==
    CASE r = "roc_curve_through_learning" -> <<"fit_callbacks", "plot_model">>
      [] r = "roc_curve_through_learning_segmentation" -> SegmentationLoop
      [] r = "inspect_architectures" ->
            <<"set_args", "paths">> \o ArchBranch(item)
            \o <<"train_unbound", "inspect">>
      [] r = "test_architectures" ->
            <<"generators", "test_next", "build", "predict", "scores",
              "gnomad_scores", "gnomad_scores", "single_sample",
              "deep_variant", "shared_keys", "truth_deep_variant",
              "snp_block", "indel_block">>
      [] OTHER -> <<>>

\* ------------------------------------------------------------ execution
Stmts ==
    IF pc = "body" THEN Body(recipe, args)
    ELSE IF pc = "loop" THEN LoopBody(recipe, items[i + 1])
    ELSE <<>>

CurOp == IF ip <= Len(Stmts) THEN Stmts[ip] ELSE "end"

At(op) == pc \in {"body", "loop"} /\ CurOp = op

AtEnd(where) == pc = where /\ ip > Len(Stmts)

\* The statement completes: locals become l and the events evs are made.
Completes(l, evs) ==
    /\ locals' = l
    /\ trace' = trace \o evs
    /\ ip' = ip + 1
    /\ UNCHANGED <<keras, disk, args, pc, recipe, i, items, called, error>>

\* A handler that would record e and go on with the next statement.
RaisesAndContinues(e, evs) ==
    /\ error' = e
    /\ trace' = trace \o evs
    /\ ip' = ip + 1
    /\ UNCHANGED <<keras, disk, args, pc, recipe, i, items, locals, called>>

\* The statement raises e after making the events evs; nothing in
\* recipes.py catches it, so it leaves the recipe and run().
Raises(e, evs) ==
    /\ pc' = "raised"
    /\ error' = e
    /\ trace' = trace \o evs
    /\ UNCHANGED <<keras, disk, args, recipe, ip, i, items, locals, called>>

Bound(v) == v # Unbound
ModelBound == locals.model.built # Unbound

\* The first name, in evaluation order, that a call with model, generators
\* and (when wp) weight_path as arguments finds unbound.
FirstUnbound(wp) ==
    IF ~ModelBound THEN "NameError: model"
    ELSE IF ~Bound(locals.generate_train) THEN "NameError: generate_train"
    ELSE IF ~Bound(locals.generate_valid) THEN "NameError: generate_valid"
    ELSE IF wp /\ ~locals.weight_path THEN "NameError: weight_path"
    ELSE ""

\* ------------------------------------------------------------------ run()
\* run(): the branch of the chain that matches args.mode calls a recipe of
\* recipes.py.
RunRecipe ==
    /\ pc = "run"
    /\ FirstMatch(args.mode) # 0
    /\ LET b == Chain[FirstMatch(args.mode)] IN
        /\ b.calls[1] \in Recipes
        /\ called' = b.calls
        /\ recipe' = b.calls[1]
    /\ pc' = "body"
    /\ UNCHANGED <<keras, disk, args, ip, i, items, locals, trace, error>>

\* run(): the branch that matches args.mode calls td / models functions.
RunExternal ==
    /\ pc = "run"
    /\ FirstMatch(args.mode) # 0
    /\ LET b == Chain[FirstMatch(args.mode)] IN
        /\ b.calls[1] \notin Recipes
        /\ called' = b.calls
        /\ trace' = trace \o [k \in 1..Len(b.calls) |-> Event(b.calls[k])]
    /\ pc' = "done"
    /\ UNCHANGED <<keras, disk, args, recipe, ip, i, items, locals, error>>

\* run(): no literal matches, the else branch prints the error message.
RunUnknown ==
    /\ pc = "run"
    /\ FirstMatch(args.mode) = 0
    /\ trace' = Append(trace, Event("print ERROR! Unknown recipe mode"))
    /\ pc' = "done"
    /\ UNCHANGED <<keras, disk, args, recipe, ip, i, items, locals, called, error>>

\* ------------------------------------------------------------ statements
SetArgs == At("set_args") /\ Completes(locals, <<>>)

SetSamples ==
    /\ At("set_samples")
    /\ args' = [args EXCEPT !.samples = InspectSamples]
    /\ ip' = ip + 1
    /\ UNCHANGED <<keras, disk, pc, recipe, i, items, locals, trace, called, error>>

Paths ==
    /\ At("paths")
    /\ Completes([locals EXCEPT !.paths = TRUE], <<Event("paths")>>)

\* test_dir = args.data_dir + 'test/', then the listing of its
\* sub-directories; os.listdir raises OSError when test_dir is no directory.
ListTestDirs ==
    /\ At("list_test")
    /\ LET test_dir == args.data_dir \o TestLiteral IN
         IF isdir(disk, test_dir)
         THEN Completes([locals EXCEPT !.paths = TRUE,
                                       !.test_paths = TestPaths(disk, test_dir)],
                        <<Event("paths")>>)
         ELSE Raises("OSError: listdir", <<>>)

GenTrain ==
    /\ At("gen_train")
    /\ IF locals.paths
       THEN Completes([locals EXCEPT !.generate_train = i], <<Event("generator")>>)
       ELSE Raises("NameError: train_paths", <<>>)

GenValid ==
    /\ At("gen_valid")
    /\ IF locals.paths
       THEN Completes([locals EXCEPT !.generate_valid = i], <<Event("generator")>>)
       ELSE Raises("NameError: valid_paths", <<>>)

GenTest ==
    /\ At("gen_test")
    /\ IF locals.paths
       THEN Completes([locals EXCEPT !.generate_test = i], <<Event("generator")>>)
       ELSE Raises("NameError: test_paths", <<>>)

Generators ==
    /\ At("generators")
    /\ Completes([locals EXCEPT !.generate_test = i], <<Event("generator")>>)

WeightPath ==
    /\ At("weight_path")
    /\ Completes([locals EXCEPT !.weight_path = TRUE], <<Event("weight_path")>>)

Build ==
    /\ At("build")
    /\ Completes([locals EXCEPT !.model = NewModel(i)],
                 <<Ev("build", NewModel(i), Unbound, i, 0, {})>>)

Serialize ==
    /\ At("serialize")
    /\ IF locals.weight_path
       THEN Completes(locals, <<Event("serialize")>>)
       ELSE Raises("NameError: weight_path", <<>>)

Inspect ==
    /\ At("inspect")
    /\ IF FirstUnbound(FALSE) = ""
       THEN Completes(locals,
                <<Ev("inspect", locals.model, locals.generate_train, i, 0, {})>>)
       ELSE Raises(FirstUnbound(FALSE), <<>>)

\* model = models.train_model_from_generators(args, model, generate_train,
\*                                            generate_valid, weight_path)
Train ==
    /\ At("train")
    /\ IF FirstUnbound(TRUE) = ""
       THEN LET m == TrainModelFromGenerators(locals.model) IN
            Completes([locals EXCEPT !.model = m],
                <<Ev("train", m, locals.generate_train, i, 0, {})>>)
       ELSE Raises(FirstUnbound(TRUE), <<>>)

\* models.train_model_from_generators(args, model, generate_train,
\*     generate_valid, args.weights_hd5): the returned model is not bound.
TrainUnbound ==
    /\ At("train_unbound")
    /\ IF FirstUnbound(FALSE) = ""
       THEN Completes(locals,
                <<Ev("train", TrainModelFromGenerators(locals.model),
                     locals.generate_train, i, 0, {})>>)
       ELSE Raises(FirstUnbound(FALSE), <<>>)

FitCallbacks ==
    /\ At("fit_callbacks")
    /\ IF FirstUnbound(TRUE) = ""
       THEN LET m == FitGenerator(locals.model) IN
            Completes([locals EXCEPT !.model = m],
                <<Ev("fit_callbacks", m, locals.generate_train, i, 0, {})>>)
       ELSE Raises(FirstUnbound(TRUE), <<>>)

Fit ==
    /\ At("fit")
    /\ IF FirstUnbound(FALSE) = ""
       THEN LET m == FitGenerator(locals.model) IN
            Completes([locals EXCEPT !.model = m],
                <<Ev("fit", m, locals.generate_train, i, 0, {})>>)
       ELSE Raises(FirstUnbound(FALSE), <<>>)

Test ==
    /\ At("test")
    /\ IF locals.paths
       THEN Completes([locals EXCEPT !.test = i], <<Event("test")>>)
       ELSE Raises("NameError: test_paths", <<>>)

TestBatches ==
    /\ At("test_batches")
    /\ IF Bound(locals.generate_test)
       THEN Completes([locals EXCEPT !.test = i],
                <<Ev("test", NoModel, Unbound, i, args.iterations, {})>>)
       ELSE Raises("NameError: generate_test", <<>>)

TestNext ==
    /\ At("test_next")
    /\ IF Bound(locals.generate_test)
       THEN Completes([locals EXCEPT !.test = i],
                <<Ev("test", NoModel, Unbound, i, 1, {})>>)
       ELSE Raises("NameError: generate_test", <<>>)

Predict ==
    /\ At("predict")
    /\ IF ModelBound /\ Bound(locals.test)
       THEN Completes([locals EXCEPT !.predictions = locals.model],
                <<Ev("predict", locals.model, Unbound, i, 0, {})>>)
       ELSE Raises(IF ModelBound THEN "NameError: test" ELSE "NameError: model", <<>>)

PlotModel ==
    /\ At("plot_model")
    /\ IF ModelBound /\ Bound(locals.test)
       THEN Completes(locals, <<Ev("plot", locals.model, Unbound, i, 0, {})>>)
       ELSE Raises(IF ModelBound THEN "NameError: test" ELSE "NameError: model", <<>>)

PlotPred ==
    /\ At("plot_pred")
    /\ IF locals.predictions.built # Unbound
       THEN Completes(locals, <<Ev("plot", locals.predictions, Unbound, i, 0, {})>>)
       ELSE Raises("NameError: predictions", <<>>)

PrintAuc ==
    /\ At("print_auc")
    /\ IF ModelBound /\ Bound(locals.test)
       THEN Completes(locals, <<Ev("print_auc", locals.model, Unbound, i, 0, {})>>)
       ELSE Raises(IF ModelBound THEN "NameError: test" ELSE "NameError: model", <<>>)

PrintError == At("print_error") /\ Completes(locals, <<Event("print_error")>>)

Scores ==
    /\ At("scores")
    /\ Completes([locals EXCEPT !.scores = TRUE], <<Event("scores")>>)

GnomadScores ==
    /\ At("gnomad_scores")
    /\ Completes([locals EXCEPT !.scores = TRUE], <<Event("gnomad_scores")>>)

Title ==
    /\ At("title")
    /\ IF locals.weight_path
       THEN Completes(locals, <<Event("title")>>)
       ELSE Raises("NameError: weight_path", <<>>)

PlotScores ==
    /\ At("plot_scores")
    /\ IF locals.scores
       THEN Completes(locals, <<Event("plot_scores")>>)
       ELSE Raises("NameError: snp_scores", <<>>)

\* --------------------------------------------- comparisons against gnomAD
\* if args.single_sample_vqsr: snp_single_sample, indel_single_sample = ...
SingleSample ==
    /\ At("single_sample")
    /\ IF args.single_sample_vqsr
       THEN Completes([locals EXCEPT !.single_sample = TRUE],
                      <<Event("scores_from_positions")>>)
       ELSE Completes(locals, <<>>)

\* if args.deep_variant_vcf: snp_deep_variant, indel_deep_variant = ...
DeepVariant ==
    /\ At("deep_variant")
    /\ IF args.deep_variant_vcf
       THEN Completes([locals EXCEPT !.deep_variant = TRUE],
                      <<Event("scores_from_positions QUAL")>>)
       ELSE Completes(locals, <<>>)

\* shared_snp_keys / shared_indel_keys: how many positions every scorer
\* scored is decided by the files read, any number up to MaxShared.
SharedKeys ==
    /\ At("shared_keys")
    /\ \E s \in 0..MaxShared, d \in 0..MaxShared :
          Completes([locals EXCEPT !.shared_snp = s, !.shared_indel = d], <<>>)

\* test_architectures: snp_truth = [snp_deep_variant[p][1] for p in
\* shared_snp_keys], then the same for indels.  The name is looked up once
\* per shared key.
TruthDeepVariant ==
    /\ At("truth_deep_variant")
    /\ IF locals.deep_variant THEN Completes(locals, <<>>)
       ELSE IF locals.shared_snp > 0
            THEN Raises("NameError: snp_deep_variant", <<>>)
       ELSE IF locals.shared_indel > 0
            THEN Raises("NameError: indel_deep_variant", <<>>)
       ELSE Completes(locals, <<>>)

\* The keys of snp_scores / indel_scores.
Series(a) ==
    {"VQSR gnomAD", "Neural Net", "Random Forest"}
    \cup (IF a.single_sample_vqsr THEN {"VQSR Single Sample"} ELSE {})
    \cup (IF a.deep_variant_vcf THEN {"Deep Variant"} ELSE {})

\* One of the blocks `if 'SNP' in args.labels:` / `if 'INDEL' in
\* args.labels:`; shared is the number of shared keys, n the number of
\* positions the network scored for that class (at least the shared ones).
\* With args.emit_interesting_sites the block takes np.max of the shared
\* scores and prints the first ScoresPrinted entries of the sorted scores.
CompareBlock(label, shared, cnn, roc, pr) ==
    IF label \notin args.labels THEN Completes(locals, <<>>)
    ELSE \E n \in shared..MaxSites :
        LET calls == IF recipe = "test_tensor_vs_gnomad"
                     THEN <<Ev(cnn, locals.predictions, Unbound, i, 0, {})>>
                     ELSE <<>>
        IN  IF args.emit_interesting_sites /\ shared = 0
            THEN Raises("ValueError: zero-size array", calls)
            ELSE IF args.emit_interesting_sites /\ n < ScoresPrinted
            THEN Raises("IndexError: list index out of range", calls)
            ELSE Completes(locals,
                    calls \o <<Ev(roc, NoModel, Unbound, i, 0, Series(args)),
                               Ev(pr, NoModel, Unbound, i, 0, Series(args))>>)

SnpBlock ==
    /\ At("snp_block")
    /\ CompareBlock("SNP", locals.shared_snp, "predictions_to_snp_scores",
                    "SNP_ROC", "SNP_Precision_Recall")

IndelBlock ==
    /\ At("indel_block")
    /\ CompareBlock("INDEL", locals.shared_indel, "predictions_to_indel_scores",
                    "INDEL_ROC", "INDEL_Precision_Recall")

\* ------------------------------------------------------- control flow
\* The last statement of a recipe without a loop has completed.
Return ==
    /\ AtEnd("body")
    /\ recipe \notin LoopRecipes
    /\ pc' = "done"
    /\ UNCHANGED <<keras, disk, args, recipe, ip, i, items, locals, trace, called, error>>

\* The for statement evaluates the sequence it iterates over.
EnterLoop ==
    /\ AtEnd("body")
    /\ recipe \in LoopRecipes
    /\ \E its \in LoopItems(recipe, args) :
          /\ items' = its
          /\ pc' = IF Len(its) = 0 THEN "done" ELSE "loop"
    /\ ip' = 1
    /\ i' = 0
    /\ UNCHANGED <<keras, disk, args, recipe, locals, trace, called, error>>

NextIteration ==
    /\ AtEnd("loop")
    /\ i + 1 < Len(items)
    /\ i' = i + 1
    /\ ip' = 1
    /\ UNCHANGED <<keras, disk, args, pc, recipe, items, locals, trace, called, error>>

ExitLoop ==
    /\ AtEnd("loop")
    /\ i + 1 = Len(items)
    /\ pc' = "done"
    /\ UNCHANGED <<keras, disk, args, recipe, ip, i, items, locals, trace, called, error>>

Next ==
    \/ RunRecipe \/ RunExternal \/ RunUnknown
    \/ SetArgs \/ SetSamples \/ Paths \/ ListTestDirs \/ GenTrain \/ GenValid \/ GenTest
    \/ Generators \/ WeightPath \/ Build \/ Serialize \/ Inspect
    \/ Train \/ TrainUnbound \/ FitCallbacks \/ Fit
    \/ Test \/ TestBatches \/ TestNext \/ Predict
    \/ PlotModel \/ PlotPred \/ PrintAuc \/ PrintError
    \/ Scores \/ GnomadScores \/ Title \/ PlotScores
    \/ SingleSample \/ DeepVariant \/ SharedKeys \/ TruthDeepVariant
    \/ SnpBlock \/ IndelBlock
    \/ Return \/ EnterLoop \/ NextIteration \/ ExitLoop

Spec == Init /\ [][Next]_vars

\* ------------------------------------------------- keras_example.py
\* A split of the data set is a tuple (input, target): the rows of the
\* input (here one pixel each) and the label of each row.
Splits ==
    {<<<<x>>, <<y>>>> : x \in 0..MaxPixel, y \in 0..MaxLabel}

\* What cPickle.load returns from mnist.pkl.gz: three splits.
Pickles == Splits \X Splits \X Splits

\* Whether 'mnist.pkl.gz' is a file of the working directory, and whether
\* it is a file of the data directory beside keras_example.py.
FileStates == [cwd : BOOLEAN, data : BOOLEAN]

\* make_one_hot(y, num_labels): one row per label, 1.0 at the label's index.
make_one_hot(y, num_labels) ==
    [k \in 1..Len(y) |->
        [j \in 0..(num_labels - 1) |-> IF j = y[k] THEN 1 ELSE 0]]

\* load_data('mnist.pkl.gz'): the file of the working directory is read if
\* it exists, otherwise the one of the data directory, downloaded first
\* if it is missing.  Returns train_set, valid_set, test_set.
Downloads(files) == ~files.cwd /\ ~files.data

load_data(pickle) ==
    LET train_set == pickle[1]
        valid_set == pickle[2]
        test_set == pickle[3]
    IN <<train_set, valid_set, test_set>>

\* run() calls the three examples in this order.
KerasOrder ==
    <<"linear_regression", "logistic_regression", "multilayer_perceptron">>

KerasBody(fn) ==
    IF fn = "linear_regression" THEN <<"compile", "fit_linear", "report">>
    ELSE <<"load_data", "one_hot", "compile", "fit", "evaluate">>

KerasAt(op) ==
    /\ keras.pc = "in"
    /\ keras.ip <= Len(KerasBody(keras.fn))
    /\ KerasBody(keras.fn)[keras.ip] = op

KerasEvent(op, x, y, validation) ==
    [op |-> op, fn |-> keras.fn, x |-> x, y |-> y, validation |-> validation]

\* The statement completes with keras_example's state k, after the events
\* evs.
KerasStep(k, evs) ==
    /\ keras' = [k EXCEPT !.ip = keras.ip + 1, !.out = keras.out \o evs]
    /\ UNCHANGED recipeVars

KerasInit ==
    /\ \E f \in FileStates, p \in Pickles :
          keras = [KerasIdle EXCEPT !.pc = "start", !.files = f, !.pickle = p]
    /\ args \in ArgsFor(UnknownMode)
    /\ disk = DefaultDisk
    /\ pc = "done"
    /\ recipe = ""
    /\ ip = 1
    /\ i = 0
    /\ items = <<>>
    /\ locals = NoLocals
    /\ trace = <<>>
    /\ called = <<>>
    /\ error = ""

KerasRun ==
    /\ keras.pc = "start"
    /\ keras' = [keras EXCEPT !.pc = "in", !.fn = KerasOrder[1], !.ip = 1]
    /\ UNCHANGED recipeVars

\* train, test, valid = load_data('mnist.pkl.gz')
LoadData ==
    /\ KerasAt("load_data")
    /\ LET loaded == load_data(keras.pickle) IN
         KerasStep([keras EXCEPT !.train = loaded[1],
                                 !.test = loaded[2],
                                 !.valid = loaded[3],
                                 !.files.data = @ \/ Downloads(keras.files)],
                   IF Downloads(keras.files)
                   THEN <<KerasEvent("download", <<>>, <<>>, <<>>)>>
                   ELSE <<>>)

OneHot ==
    /\ KerasAt("one_hot")
    /\ KerasStep([keras EXCEPT
                     !.train_y = make_one_hot(keras.train[2], NumLabels),
                     !.valid_y = make_one_hot(keras.valid[2], NumLabels),
                     !.test_y = make_one_hot(keras.test[2], NumLabels)],
                 <<>>)

Compile ==
    /\ KerasAt("compile")
    /\ KerasStep([keras EXCEPT !.compiled = TRUE], <<>>)

\* linear_model.fit(x, y, ...) on the generated samples.
FitLinear ==
    /\ KerasAt("fit_linear")
    /\ keras.compiled
    /\ KerasStep(keras, <<KerasEvent("fit", <<>>, <<>>, <<>>)>>)

Report ==
    /\ KerasAt("report")
    /\ KerasStep(keras, <<KerasEvent("plot", <<>>, <<>>, <<>>)>>)

\* model.fit(train[0], train_y, validation_data=(valid[0], valid_y), ...)
FitModel ==
    /\ KerasAt("fit")
    /\ keras.compiled
    /\ KerasStep(keras,
                 <<KerasEvent("fit", keras.train[1], keras.train_y,
                              <<keras.valid[1], keras.valid_y>>)>>)

\* print 'Test set loss and accuracy:', model.evaluate(test[0], test_y)
Evaluate ==
    /\ KerasAt("evaluate")
    /\ keras.compiled
    /\ KerasStep(keras,
                 <<KerasEvent("evaluate", keras.test[1], keras.test_y, <<>>)>>)

\* The example returns: its locals are gone, run() calls the next one.
KerasReturn ==
    /\ keras.pc = "in"
    /\ keras.ip > Len(KerasBody(keras.fn))
    /\ LET k == CHOOSE j \in 1..Len(KerasOrder) : KerasOrder[j] = keras.fn
           cleared == [keras EXCEPT !.train = <<>>, !.test = <<>>, !.valid = <<>>,
                                    !.train_y = <<>>, !.valid_y = <<>>,
                                    !.test_y = <<>>, !.compiled = FALSE, !.ip = 1]
       IN keras' = IF k < Len(KerasOrder)
                   THEN [cleared EXCEPT !.fn = KerasOrder[k + 1]]
                   ELSE [cleared EXCEPT !.pc = "done"]
    /\ UNCHANGED recipeVars

KerasNext ==
    \/ KerasRun \/ LoadData \/ OneHot \/ Compile \/ FitLinear \/ Report
    \/ FitModel \/ Evaluate \/ KerasReturn

KerasSpec == KerasInit /\ [][KerasNext]_vars

\* ------------------------------------------------------ failing steps
\* Any call a recipe makes into td, models, plots or os can raise (a missing
\* file, a shape mismatch); assignments to fields of args cannot.
FrameworkError == "framework error"

StepFails ==
    /\ pc \in {"body", "loop"}
    /\ ip <= Len(Stmts)
    /\ CurOp \notin {"set_args", "set_samples"}
    /\ Raises(FrameworkError, <<>>)

\* A call that run() makes itself raises: the calls before it were made,
\* the calls after it are not.
RunExternalFails ==
    /\ pc = "run"
    /\ FirstMatch(args.mode) # 0
    /\ LET b == Chain[FirstMatch(args.mode)] IN
        /\ b.calls[1] \notin Recipes
        /\ \E k \in 1..Len(b.calls) :
              /\ called' = SubSeq(b.calls, 1, k)
              /\ trace' = trace \o [j \in 1..(k - 1) |-> Event(b.calls[j])]
    /\ pc' = "raised"
    /\ error' = FrameworkError
    /\ UNCHANGED <<keras, disk, args, recipe, ip, i, items, locals>>

NextFaults == Next \/ StepFails \/ RunExternalFails

SpecFaults == Init /\ [][NextFaults]_vars

\* ------------------------------------------------------------ properties
Finished == pc \in {"done", "raised"}

\* The positions of the trace holding an event of operation op.
Positions(op) == {k \in 1..Len(trace) : trace[k].op = op}

\* The branches of the chain whose literal equals m.
Matching(m) == {k \in 1..Len(Chain) : Chain[k].mode = m}

LiteralsDistinct ==
    \A j, k \in 1..Len(Chain) : j # k => Chain[j].mode # Chain[k].mode

\* run() did what a table keyed by the mode literal would do: one branch
\* matches, the calls made are that branch's calls, each once and in order,
\* and the branch taken is the same with the chain read backwards.
ActsAsLookupTable ==
    /\ LiteralsDistinct
    /\ Cardinality(Matching(args.mode)) = 1
    /\ \A k \in Matching(args.mode) : called = Chain[k].calls
    /\ FirstMatch(args.mode) = LastMatch(args.mode)

\* C1 as stated: run() is a lookup table keyed by args.mode (the literals
\* are pairwise distinct and the result does not depend on the order of
\* the branches) and for every mode literal exactly one call is made.
C1_ExactlyOneCallPerLiteral ==
    (pc # "run" /\ args.mode \in ModeLiterals) =>
        (ActsAsLookupTable /\ Len(called) = 1)

\* C1 amended: run() is a lookup table keyed by args.mode and the matching
\* branch is executed exactly once; that branch makes exactly one call for
\* every literal except write_filters_2d and write_filters_1d, whose
\* branch makes two (it builds a model, then writes its filters).
C1_LookupTableOneBranch ==
    (pc # "run" /\ args.mode \in ModeLiterals) =>
        /\ ActsAsLookupTable
        /\ Len(called) =
             IF args.mode \in {"write_filters_2d", "write_filters_1d"}
             THEN 2 ELSE 1

C1_Witness ==
    /\ pc = "done"
    /\ args.mode = "write_filters_2d"
    /\ called = <<"models.build_read_tensor_2d_and_annotations_model(args)",
                  "models.write_filters_2d(args, model)">>

\* C2: with a mode equal to none of the literals, run() prints the unknown
\* recipe error, calls no recipe and no td / models function, and returns
\* normally.
C2_UnknownModeOnlyPrints ==
    (pc # "run" /\ args.mode \notin ModeLiterals) =>
        /\ pc = "done"
        /\ error = ""
        /\ recipe = ""
        /\ called = <<>>
        /\ Len(trace) = 1
        /\ trace[1].op = "print ERROR! Unknown recipe mode"

C2_Witness ==
    /\ args.mode = UnknownMode
    /\ pc = "done"
    /\ Len(trace) = 1

\* C3: in a recipe started by a train_* mode every plot comes after the
\* call of models.train_model_from_generators has returned, and the model
\* the plot uses is the model that call returned.
C3_PlotUsesTrainedModel ==
    args.mode \in TrainModes =>
        \A k \in Positions("plot") :
            \E j \in Positions("train") :
                /\ j < k
                /\ trace[k].m = trace[j].m
                /\ trace[j].m.trained

C3_Witness ==
    /\ args.mode \in TrainModes
    /\ pc = "done"
    /\ Positions("train") # {}
    /\ Positions("plot") # {}

\* C4: every fit of a model goes through models.train_model_from_generators
\* or through fit_generator with the callbacks of models.get_callbacks; no
\* recipe calls fit_generator without them.
C4_EveryFitHasCallbacks == Positions("fit") = {}

\* C5: mode train_bqsr_lstm builds the model, reaches
\* models.train_model_from_generators with a bound weight path and then
\* plots the ROC curves on the test dataset.
C5_BqsrLstmTrainsThenPlots ==
    (args.mode = "train_bqsr_lstm" /\ Finished) =>
        /\ pc = "done"
        /\ \E b \in Positions("build"), t \in Positions("train"),
              p \in Positions("plot") : b < t /\ t < p

\* C6: in inspect_architectures the model and the generators given to
\* train_model_from_generators and inspect_model in an iteration were built
\* in that same iteration, never left over or unbound.
C6_BuiltInSameIteration ==
    recipe = "inspect_architectures" =>
        /\ error = ""
        /\ \A k \in Positions("train") \cup Positions("inspect") :
              /\ trace[k].m.built = trace[k].i
              /\ trace[k].g = trace[k].i

\* The score series the comparison against gnomAD is to plot.
ExpectedSeries ==
    {"VQSR gnomAD", "Neural Net", "Random Forest"}
    \cup {s \in {"VQSR Single Sample"} : args.single_sample_vqsr}
    \cup {s \in {"Deep Variant"} : args.deep_variant_vcf}

\* An event of operation op with the expected series was made in loop
\* iteration it.
Compared(op, it) ==
    \E k \in Positions(op) :
        trace[k].i = it /\ trace[k].series = ExpectedSeries

\* C7: test_architectures completes the comparison of every architecture
\* for every combination of args.single_sample_vqsr and
\* args.deep_variant_vcf, args.deep_variant_vcf unset included.
C7_TestArchitecturesCompletes ==
    (recipe = "test_architectures" /\ Finished) =>
        /\ pc = "done"
        /\ \A it \in 0..(args.architectures - 1) :
              /\ "SNP" \in args.labels =>
                    Compared("SNP_ROC", it) /\ Compared("SNP_Precision_Recall", it)
              /\ "INDEL" \in args.labels =>
                    Compared("INDEL_ROC", it) /\ Compared("INDEL_Precision_Recall", it)

\* C8: when test_tensor_vs_gnomad ends, the series of every plot are the
\* three fixed ones plus the single sample VQSR and Deep Variant ones
\* exactly when their argument is set, the SNP plots exist exactly when
\* 'SNP' is in args.labels and the INDEL plots exactly when 'INDEL' is.
C8_SeriesAndPlotsFollowArgs ==
    (recipe = "test_tensor_vs_gnomad" /\ Finished) =>
        /\ \A op \in {"SNP_ROC", "SNP_Precision_Recall", "INDEL_ROC",
                      "INDEL_Precision_Recall"} :
              \A k \in Positions(op) : trace[k].series = ExpectedSeries
        /\ "SNP" \in args.labels <=> Positions("SNP_ROC") # {}
        /\ "SNP" \in args.labels <=> Positions("SNP_Precision_Recall") # {}
        /\ "INDEL" \in args.labels <=> Positions("INDEL_ROC") # {}
        /\ "INDEL" \in args.labels <=> Positions("INDEL_Precision_Recall") # {}

\* C9: mode roc_animation runs args.samples one-epoch training rounds and
\* plots args.samples ROC curves, one right after each round.
C9_SamplesRoundsAndPlots ==
    (recipe = "roc_curve_through_learning" /\ pc = "done") =>
        /\ Cardinality(Positions("fit_callbacks")) = args.samples
        /\ Cardinality(Positions("plot")) = args.samples
        /\ \A k \in Positions("fit_callbacks") :
              k + 1 \in Positions("plot") /\ trace[k + 1].m = trace[k].m

\* The number of fit_generator rounds made before position k of the trace.
RoundsBefore(k) == Cardinality({j \in Positions("fit") : j < k})

\* What C10 says of roc_curve_through_learning_segmentation apart from its
\* last clause: the test set of args.iterations batches is gathered before
\* any training, the i-th plot (from 0) is made after exactly i rounds, on
\* the model those rounds produced, and there are args.samples plots.
SegmentationPlots ==
    /\ \A k \in Positions("fit") :
          \E t \in Positions("test") : t < k /\ trace[t].n = args.iterations
    /\ Cardinality(Positions("test")) <= 1
    /\ \A k \in Positions("plot") :
          /\ RoundsBefore(k) = trace[k].i
          /\ trace[k].m.rounds = trace[k].i
          /\ Cardinality({j \in Positions("plot") : j < k}) = trace[k].i
    /\ pc = "done" => Cardinality(Positions("plot")) = args.samples

\* The fit at position k is followed by a plot of the model it produced.
PlottedLater(k) ==
    \E p \in Positions("plot") : p > k /\ trace[p].m = trace[k].m

\* C10 as stated: args.samples plots on a test set gathered before any
\* training, the i-th after exactly i rounds, and every training round is
\* followed by a plot of its result.
C10_EveryRoundPlotted ==
    recipe = "roc_curve_through_learning_segmentation" =>
        /\ SegmentationPlots
        /\ pc = "done" => \A k \in Positions("fit") : PlottedLater(k)

\* C10 amended: args.samples plots on a test set gathered before any
\* training, the i-th after exactly i rounds; there are args.samples
\* training rounds and every round but the last is followed by a plot of
\* its result, the result of the last round is never plotted.
C10_AllButLastRoundPlotted ==
    recipe = "roc_curve_through_learning_segmentation" =>
        /\ SegmentationPlots
        /\ pc = "done" =>
              /\ Cardinality(Positions("fit")) = args.samples
              /\ \A k \in Positions("fit") :
                    PlottedLater(k) <=> trace[k].i < args.samples - 1

C10_Witness ==
    /\ recipe = "roc_curve_through_learning_segmentation"
    /\ pc = "done"
    /\ args.samples >= 2
    /\ Cardinality(Positions("plot")) = args.samples
    /\ Cardinality(Positions("fit")) = args.samples

\* The recipes that list their test class directories themselves, and the
\* position of that statement in their body.
ListingRecipes ==
    {"test_reference_annotation_net", "test_reference_net",
     "test_annotation_multilayer_perceptron"}

Listed == recipe \in ListingRecipes /\ pc \in {"body", "done"} /\ locals.paths

\* The sub-directories of the 'test' sub-directory of the directory that
\* data_dir names, by their components, in sorted name order.
LabelDirs(d, data_dir) ==
    LET test == Append(Split(data_dir), TestName)
        names == sorted({n \in AllNames : Kind(d, Append(test, n)) = "dir"})
    IN [k \in 1..Len(names) |-> Append(test, names[k])]

Resolved(paths) == [k \in 1..Len(paths) |-> Split(paths[k])]

\* C11: in test_reference_net, test_reference_annotation_net and
\* test_annotation_multilayer_perceptron the listing of the test class
\* directories succeeds and yields exactly the sub-directories (never the
\* plain files) of the 'test' sub-directory of args.data_dir, in sorted
\* name order, whether or not args.data_dir ends with a path separator.
C11_TestPathsAreLabelDirs ==
    recipe \in ListingRecipes =>
        /\ pc # "raised"
        /\ Listed => Resolved(locals.test_paths) = LabelDirs(disk, args.data_dir)

\* C12: recipes.py has no recovery policy.  A step that fails leaves the
\* recipe and run() with its exception: the failing step binds nothing,
\* the position in the recipe does not advance, and from then on no step
\* is executed, none is retried and no fallback is called.
C12_FailurePropagates ==
    [][/\ error' # error =>
             /\ error = ""
             /\ pc' = "raised"
             /\ locals' = locals
             /\ ip' = ip /\ i' = i
       /\ pc' = "raised" => error' # ""
       /\ pc = "raised" => UNCHANGED vars]_vars

\* A framework failure in the middle of a recipe: steps were executed
\* before it and steps of the recipe remain after it.
C12_Witness ==
    /\ pc = "raised"
    /\ error = FrameworkError
    /\ recipe \in Recipes
    /\ items = <<>>
    /\ trace # <<>>
    /\ ip < Len(Body(recipe, args))

\* The events of operation op made by logistic_regression and
\* multilayer_perceptron.
KerasEvents(op) ==
    {k \in 1..Len(keras.out) :
        /\ keras.out[k].op = op
        /\ keras.out[k].fn \in {"logistic_regression", "multilayer_perceptron"}}

\* C13: logistic_regression and multilayer_perceptron evaluate ('Test set
\* loss and accuracy') on the test split load_data returns, the third
\* element of its result, and pass the validation split, the second
\* element, as validation_data to fit.
C13_EvaluatesOnTestSplit ==
    LET returned == load_data(keras.pickle) IN
        /\ \A k \in KerasEvents("evaluate") :
              /\ keras.out[k].x = returned[3][1]
              /\ keras.out[k].y = make_one_hot(returned[3][2], NumLabels)
        /\ \A k \in KerasEvents("fit") :
              keras.out[k].validation =
                  <<returned[2][1], make_one_hot(returned[2][2], NumLabels)>>

====
